---- MODULE Spec2Model ----
(***************************************************************************)
(* Price acquisition and caching layer of portfolio-viewer.                *)
(*                                                                         *)
(* Two variants of PriceCacheService live in the repository:               *)
(*   - the Redis-backed one (src/unnamed/part_008): getPrices,             *)
(*     getFreshPrices, _fetchAndCachePrices, _readCacheFromRedis, with a   *)
(*     per-instance isUpdating flag and the snapshot under one Redis key;  *)
(*     Spec is its state machine;                                          *)
(*   - the in-memory one (src/src/server/services/price-cache.service.ts): *)
(*     module-level priceCache / isUpdating / updateInterval, updatePrices *)
(*     with a Promise.allSettled fan-out and a synchronous getPrices;      *)
(*     SpecMem is its state machine.                                       *)
(*                                                                         *)
(* JavaScript runs every continuation to its next await without            *)
(* interleaving, so each action is one such run.  Time is counted in       *)
(* minutes.                                                                *)
(***************************************************************************)
EXTENDS Integers, Sequences, FiniteSets, TLC

\* ------------------------------------------------------------------ bounds
MaxCalls == 2          \* getPrices / getFreshPrices calls issued in one run
MaxTime == 6           \* the clock stops advancing here (minutes)
MaxTick == 13          \* CryptoPrice: the clock stops advancing here (units of 1000 ms)
MaxResolutions == 2    \* CryptoPrice: getXxxPrice calls issued in one run
FanOut == 3            \* CryptoPrice: getXxxPrice calls issued when no provider throttles
Max429 == 4            \* CryptoPrice: HTTP 429 answers given in one run
Latency == 1           \* CryptoPrice: the time a provider takes to answer (units of 1000 ms)

\* ------------------------------------------------------- program constants
CACHE_TTL_MIN == 5     \* CACHE_TTL_SECONDS = 5 * 60
CACHE_STALE_MIN == 2   \* CACHE_STALE_MS = 2 * 60 * 1000

\* The PriceCacheService objects of the process; they share the Redis key.
Instances == {1, 2}
Service == {1}
Calls == 1..MaxCalls

\* ------------------------------------------------------------------ values
\* A JavaScript price value: null, a number, or something isNaN() is true of.
Null == [k |-> "null", n |-> 0]
NaN == [k |-> "nan", n |-> 0]
Num(x) == [k |-> "num", n |-> x]

\* CachedPrices | null is a sequence of length 0 or 1.
None == <<>>
Some(s) == <<s>>

\* Keys of CachedPrices, and the symbols of symbolsToFetch they come from.
Keys == {"btc", "eth", "sol", "usdc", "xmr"}
SymbolOf == [btc |-> "BTC", eth |-> "ETH", sol |-> "SOL", usdc |-> "USDC", xmr |-> "XMR"]
symbolsToFetch == {"BTC", "ETH", "SOL", "USDC", "XMR"}
SYMBOL_TO_COINGECKO_ID ==
    [BTC |-> "bitcoin", ETH |-> "ethereum", SOL |-> "solana", USDC |-> "usd-coin", XMR |-> "monero"]
CoinGeckoIds == {SYMBOL_TO_COINGECKO_ID[s] : s \in symbolsToFetch}

\* JavaScript truthiness of a price value: null and 0 are falsy.
Truthy(v) == v.k = "nan" \/ (v.k = "num" /\ v.n # 0)

\* x !== null && !isNaN(x)
IsValidNumber(v) == v.k = "num"

\* ------------------------------------------------------ the batch provider
\* The bodies the CoinGecko batch endpoint is made to answer: per id the usd
\* field, which may be missing (Null), 0, negative, a non-numeric string (NaN)
\* or a price.
AllIds(v) == [id \in CoinGeckoIds |-> v]
OkData ==
    {AllIds(Num(2)),
     [AllIds(Null) EXCEPT !["bitcoin"] = Num(0 - 1), !["usd-coin"] = Num(0), !["monero"] = NaN]}

\* ok: HTTP 200 with a body; err: network error, timeout, HTTP error (429
\* after its retries included); throw: an exception escaping fetchPricesBatch.
Responses ==
    {[status |-> "ok", data |-> d] : d \in OkData}
        \cup {[status |-> "err", data |-> AllIds(Null)],
              [status |-> "throw", data |-> AllIds(Null)]}

\* CryptoPrice.fetchPricesBatch: the map symbol -> price | null.
fetchPricesBatch(resp) ==
    [s \in symbolsToFetch |->
        IF resp.status = "ok" /\ Truthy(resp.data[SYMBOL_TO_COINGECKO_ID[s]])
        THEN resp.data[SYMBOL_TO_COINGECKO_ID[s]]
        ELSE Null]

\* ------------------------------------------------------------------- merge
\* previousPrices?.key ?? dflt
PrevOr(prev, key, dflt) ==
    IF prev = None THEN dflt
    ELSE IF prev[1][key].k = "null" THEN dflt ELSE prev[1][key]

\* (variant) USDC is merged like any other symbol, without the default of 1.
MergeKey_noDefault(prev, fetched, key) ==
    IF IsValidNumber(fetched[SymbolOf[key]]) THEN fetched[SymbolOf[key]]
    ELSE PrevOr(prev, key, Null)

\* One field of newCacheData.
MergeKey(prev, fetched, key) ==
    IF IsValidNumber(fetched[SymbolOf[key]]) THEN fetched[SymbolOf[key]]
    ELSE IF key = "usdc" THEN PrevOr(prev, key, Num(1))
    ELSE IF key = "xmr"
         THEN (IF prev # None /\ IsValidNumber(prev[1][key]) THEN prev[1][key] ELSE Null)
    ELSE PrevOr(prev, key, Null)

\* lastUpdated: Date.now()
StampOf(t) == Num(t)

\* (variant) lastUpdated is kept when no symbol was resolved.
BuildNewCacheData_keepsStamp(prev, fetched, t) ==
    [btc |-> MergeKey(prev, fetched, "btc"),
     eth |-> MergeKey(prev, fetched, "eth"),
     sol |-> MergeKey(prev, fetched, "sol"),
     usdc |-> MergeKey(prev, fetched, "usdc"),
     xmr |-> MergeKey(prev, fetched, "xmr"),
     lastUpdated |-> IF \E s \in symbolsToFetch : IsValidNumber(fetched[s])
                     THEN StampOf(t)
                     ELSE PrevOr(prev, "lastUpdated", StampOf(t))]

\* newCacheData, built from the fetched map and the previous snapshot.
BuildNewCacheData(prev, fetched, t) ==
    [btc |-> MergeKey(prev, fetched, "btc"),
     eth |-> MergeKey(prev, fetched, "eth"),
     sol |-> MergeKey(prev, fetched, "sol"),
     usdc |-> MergeKey(prev, fetched, "usdc"),
     xmr |-> MergeKey(prev, fetched, "xmr"),
     lastUpdated |-> StampOf(t)]

\* JSON.stringify writes NaN as null; JSON.parse gives the object back.
JsonValue(v) == IF v.k = "nan" THEN Null ELSE v
JsonRoundTrip(snap) == [f \in DOMAIN snap |-> JsonValue(snap[f])]

\* cachedData.lastUpdated && (now - cachedData.lastUpdated < CACHE_STALE_MS)
IsFresh(snap, t) ==
    Truthy(snap.lastUpdated) /\ t - snap.lastUpdated.n < CACHE_STALE_MIN

\* ------------------------------------------------------------------- state
VARIABLES
    now,                \* Date.now(), in minutes
    store,              \* the Redis key 'priceCache': its JSON value and expiry
    isRedisConnected,   \* per instance
    isUpdating,         \* per instance
    queue,              \* per instance: the Redis commands awaiting their reply
    refresh,            \* per instance: the _fetchAndCachePrices run past its flag test
    call,               \* the getPrices / getFreshPrices calls of the callers
    dbPrice,            \* the asset store: price last written per symbol passed
    persist,            \* the updateAssetPrice calls of the last refresh that made any
    assetRow,           \* the assets table: the price column of the rows of each symbol
    priceCache,         \* in-memory variant: the module-level priceCache
    isUpdatingGlobal,   \* in-memory variant: the module-level isUpdating
    updateInterval,     \* in-memory variant: the module-level timer is set
    update,             \* in-memory variant: the updatePrices run in flight
    reader,             \* in-memory variant: what the last reader did with the object getPrices gave it
    tick,               \* CryptoPrice: Date.now(), in units of 1000 ms
    lastApiCall,        \* CryptoPrice: per provider, the time of its last call (0: none)
    resolution,         \* CryptoPrice: per symbol, the getXxxPrice call in flight
    throttled,          \* the HTTP 429 answers the providers have given
    batch               \* CryptoPrice: the fetchPricesBatch call and its lastApiCall stamp

redisVars == <<store, isRedisConnected, isUpdating, queue, refresh, call, dbPrice, persist,
               assetRow>>
memVars == <<priceCache, isUpdatingGlobal, updateInterval, update, reader>>
resolverVars == <<tick, lastApiCall, resolution, throttled, batch>>
vars == <<now, redisVars, memVars, resolverVars>>

\* A snapshot an earlier process left under the key (ETH never resolved).
InheritedSnapshot(t) ==
    [btc |-> Num(1), eth |-> Null, sol |-> Num(1), usdc |-> Num(1), xmr |-> Num(1),
     lastUpdated |-> Num(t)]

NoKey == [data |-> None, exp |-> 0]

\* A _fetchAndCachePrices run: where it is suspended, its locals
\* (previousPrices, fetchedPricesMap, newCacheData, the time newCacheData was
\* built), the call awaiting it (0: none) and the call that started it.
IdleRefresh ==
    [pc |-> "idle", prev |-> None, fetched |-> None, newData |-> None, builtAt |-> 0,
     waiter |-> 0, trigger |-> 0]

\* A call of getPrices or getFreshPrices: where it is suspended, what it
\* returned and by which path (how), what its own store read answered (reply),
\* whether it passed the isUpdating test and started a fetch (started), the
\* getPrices calls of the same instance whose read was pending when it was
\* issued (overlap), and the starter of the refresh it found in flight (inflight).
IdleCall ==
    [kind |-> "none", inst |-> 0, pc |-> "idle", result |-> None, how |-> "-",
     reply |-> "-", started |-> FALSE, overlap |-> {}, inflight |-> 0]

GetCmd(k, c) == [op |-> "get", k |-> k, c |-> c, data |-> None, res |-> "pending", val |-> None]
SetCmd(snap) == [op |-> "set", k |-> "set", c |-> 0, data |-> Some(snap), res |-> "pending", val |-> None]

\* let priceCache = { btc: null, ..., lastUpdated: null }
EmptyCache ==
    [btc |-> Null, eth |-> Null, sol |-> Null, usdc |-> Null, xmr |-> Null, lastUpdated |-> Null]

\* A promise of the Promise.allSettled fan-out.
Pending == [st |-> "pending", v |-> Null]
Fulfilled(v) == [st |-> "fulfilled", v |-> v]
Rejected == [st |-> "rejected", v |-> Null]

\* No refresh has called updateAssetPrice: the calls made per key by the last
\* refresh that reached the asset updates, and the keys whose update failed.
NoPersist == [calls |-> [k \in Keys |-> 0], failed |-> {}]

\* No reader has touched the object getPrices returned.
NoRead == [op |-> "none", threw |-> FALSE]

\* No updatePrices run is past its isUpdating test.
IdleUpdate == [previousPrices |-> None, results |-> [k \in Keys |-> Rejected]]

\* The providers of the multi-source CryptoPrice client (the apiKey values).
Providers == {"blockchain.info", "coincap", "coingecko", "binance"}

\* The Source Clients a symbol's getXxxPrice tries, in order: getBitcoinPrice
\* puts Blockchain.info before getPrice's CoinCap, CoinGecko, Binance;
\* getUsdcPrice tries CoinGecko then CoinCap; getMoneroPrice passes no
\* Binance symbol.
SourceOrder ==
    [BTC |-> <<"blockchain.info", "coincap", "coingecko", "binance">>,
     ETH |-> <<"coincap", "coingecko", "binance">>,
     SOL |-> <<"coincap", "coingecko", "binance">>,
     USDC |-> <<"coingecko", "coincap">>,
     XMR |-> <<"coincap", "coingecko">>]

\* A getXxxPrice call: where it is suspended, the index in SourceOrder of the
\* Source Client it is in, that client's retryCount, the time its timer or
\* the answer to its request is due, what it returned; and, for the record, the Source Clients it has
\* called (tried), what each returned (got) and the HTTP requests the current
\* one has sent (requests).
IdleResolution ==
    [pc |-> "idle", src |-> 0, retryCount |-> 0, wake |-> 0, result |-> Null,
     tried |-> <<>>, got |-> <<>>, requests |-> 0]

\* The symbol column of the rows of the assets table, as updateAssetBalance
\* writes them: 'BTC', 'ETH', 'SOL', 'USDC', (and 'XMR' for manual balances).
AssetSymbols == symbolsToFetch

\* A Record<string, number | null> with no property.
EmptyMap == [s \in {} |-> Null]

\* No fetchPricesBatch call yet: where the call is suspended, its symbols
\* argument, its retryCount, the time its timer or answer is due, the object
\* it returned, and lastApiCall['coingecko_batch'] (0: none).  In pc "http"
\* wake is the time the request was sent.
IdleBatch ==
    [pc |-> "idle", symbols |-> {}, retryCount |-> 0, wake |-> 0, result |-> EmptyMap,
     lastCall |-> 0]

Init ==
    /\ now = 4
    /\ store \in {NoKey}
                   \cup {[data |-> Some(InheritedSnapshot(t)), exp |-> t + CACHE_TTL_MIN] : t \in {1, 4}}
    /\ isRedisConnected = [i \in Instances |-> FALSE]
    /\ isUpdating = [i \in Instances |-> FALSE]
    /\ queue = [i \in Instances |-> <<>>]
    /\ refresh = [i \in Instances |-> IdleRefresh]
    /\ call = [c \in Calls |-> IdleCall]
    /\ dbPrice = [k \in Keys |-> Null]
    /\ persist = NoPersist
    /\ assetRow = [row \in AssetSymbols |-> Num(1)]
    /\ priceCache = EmptyCache
    /\ isUpdatingGlobal = FALSE
    /\ updateInterval = FALSE
    /\ update = IdleUpdate
    /\ reader = NoRead
    /\ tick = 1
    /\ lastApiCall = [p \in Providers |-> 0]
    /\ resolution = [s \in symbolsToFetch |-> IdleResolution]
    /\ throttled = 0
    /\ batch = IdleBatch

\* ----------------------------------------------------------------- helpers
\* GET priceCache at time t: the value, unless the key is absent or expired.
StoreGet(t) == IF store.data # None /\ t < store.exp THEN store.data ELSE None

\* (variant) the key is written without an expiry.
StoreSet_noExpiry(snap, t) == [data |-> Some(JsonRoundTrip(snap)), exp |-> MaxTime + 1]

\* SET priceCache <json> EX CACHE_TTL_SECONDS
StoreSet(snap, t) == [data |-> Some(JsonRoundTrip(snap)), exp |-> t + CACHE_TTL_MIN]

\* A command rejected by a dropped connection: its continuation is a microtask,
\* which runs before any timer, socket or request event.
Urgent == \E i \in Instances : queue[i] # <<>> /\ Head(queue[i]).res = "rejected"

\* The reply at the head of instance i's connection can be delivered.
CanDeliver(i, k) ==
    /\ queue[i] # <<>>
    /\ Head(queue[i]).k = k
    /\ Head(queue[i]).res # "pending"
    /\ (Head(queue[i]).res = "rejected" \/ ~Urgent)

\* (variant) the read gives null whatever the reply.
ReadResult_null(cmd) == None

\* _readCacheFromRedis on a reply: the parsed value, null on a miss or an error.
ReadResult(cmd) == IF cmd.res = "ok" THEN cmd.val ELSE None

ReplyKind(cmd) ==
    IF cmd.res # "ok" THEN "err" ELSE IF cmd.val = None THEN "miss" ELSE "hit"

\* A call returns ret to its caller.
Returned(c, ret, how) == [c EXCEPT !.pc = "done", !.result = ret, !.how = how]

\* (variant) getPrices awaits the run it starts.
BackgroundWaiter_awaited(c) == c

\* this._fetchAndCachePrices() in getPrices is not awaited: no call waits for
\* the run that getPrices call c starts.
BackgroundWaiter(c) == 0

\* (variant) the flag is not tested.
UpdateInProgress_untested(i) == FALSE

\* if (this.isUpdating): the test that guards the fetch.
UpdateInProgress(i) == isUpdating[i]

\* (variant) the flag is cleared at the end of the try body, not in finally.
FlagAfterFinally_tryOnly(how) == how = "thrown"

\* finally { this.isUpdating = false }
FlagAfterFinally(how) == FALSE

\* (variant) the flag is not set before the first await of the run.
FlagBeforeAwait_unset(i) == isUpdating[i]

\* this.isUpdating = true, the statement after the test.
FlagBeforeAwait(i) == TRUE

\* The run of _fetchAndCachePrices on instance i up to its first suspension:
\* q is the connection's queue, cl the calls, w the call awaiting the result
\* (0: nobody, fire-and-forget), t the call that triggered it.
StartFetch(i, q, cl, w, t) ==
    IF UpdateInProgress(i)
    THEN IF isRedisConnected[i]
         THEN [u |-> isUpdating[i], r |-> refresh[i],
               q |-> Append(q, GetCmd("skip", w)),
               cl |-> IF w = 0 THEN cl
                      ELSE [cl EXCEPT ![w].pc = "wait_skip",
                                      ![w].inflight = refresh[i].trigger]]
         ELSE [u |-> isUpdating[i], r |-> refresh[i], q |-> q,
               cl |-> IF w = 0 THEN cl
                      ELSE [cl EXCEPT ![w] = Returned([@ EXCEPT !.inflight = refresh[i].trigger],
                                                      None, "skipped")]]
    ELSE LET cl2 == [cl EXCEPT ![t].started = TRUE]
             cl3 == IF w = 0 THEN cl2 ELSE [cl2 EXCEPT ![w].pc = "wait_refresh"]
         IN IF isRedisConnected[i]
            THEN [u |-> FlagBeforeAwait(i),
                  r |-> [IdleRefresh EXCEPT !.pc = "wait_prev", !.waiter = w, !.trigger = t],
                  q |-> Append(q, GetCmd("prev", 0)),
                  cl |-> cl3]
            ELSE [u |-> FlagBeforeAwait(i),
                  r |-> [IdleRefresh EXCEPT !.pc = "fetching", !.waiter = w, !.trigger = t],
                  q |-> q,
                  cl |-> cl3]

\* The end of _fetchAndCachePrices: return ret, run the finally block, resume
\* the awaiting call if there is one.
Finish(i, ret, how, cl) ==
    [u |-> FlagAfterFinally(how),
     r |-> IdleRefresh,
     cl |-> IF refresh[i].waiter = 0 THEN cl
            ELSE [cl EXCEPT ![refresh[i].waiter] = Returned(@, ret, how)]]

\* (variant) every key of newCacheData is handed to updateAssetPrice.
DbKeys_all(snap) == Keys

\* The keys of newCacheData handed to updateAssetPrice.
DbKeys(snap) == {k \in Keys : snap[k].k = "num"}

\* (variant) the updates are awaited one after the other and the first
\* failure ends them.
Persisted_stopAtFailure(keys, failed) == IF keys \cap failed # {} THEN {} ELSE keys

\* The updates that reach the asset store: each one has its own try/catch.
Persisted(keys, failed) == keys \ failed

\* (variant) newCacheData is returned only when it was written to Redis.
RefreshResult_onlyIfWritten(newCacheData, redisWriteSuccess) ==
    IF redisWriteSuccess THEN Some(newCacheData) ELSE None

\* return newCacheData: whether or not the write was made.
RefreshResult(newCacheData, redisWriteSuccess) == Some(newCacheData)

\* (variant) _readCacheFromRedis has no try/catch around its read.
Caught_notTheRead(site) == site # "read"

\* The exceptions of each site are caught: "read" by the try/catch of
\* _readCacheFromRedis, "write" by the one around redisClient.set, "refresh"
\* by the try/catch of _fetchAndCachePrices.
Caught(site) == TRUE

\* The read whose reply is cmd raises out of _readCacheFromRedis.
ReadRaises(cmd) == cmd.res = "rejected" /\ ~Caught("read")

\* (variant) the catch block returns null.
CatchBlock_returnsNull(i, cl) == Finish(i, None, "thrown", cl)

\* An exception inside the try block of _fetchAndCachePrices: the catch block
\* returns previousPrices; uncaught, the run rejects.
CatchBlock(i, cl) ==
    IF Caught("refresh") THEN Finish(i, refresh[i].prev, "thrown", cl)
    ELSE Finish(i, None, "rejected", cl)

\* ----------------------------------------------------------------- actions
\* The times the clock may show when it is next read.
Later == now..MaxTime

\* redisClient.on('connect')
RedisConnect(i) ==
    /\ ~Urgent
    /\ ~isRedisConnected[i]
    /\ isRedisConnected' = [isRedisConnected EXCEPT ![i] = TRUE]
    /\ UNCHANGED <<now, store, isUpdating, queue, refresh, call, dbPrice, persist, assetRow>>
    /\ UNCHANGED <<memVars, resolverVars>>

\* redisClient.on('error'): the connection dropped; the commands in flight reject.
RedisError(i) ==
    /\ ~Urgent
    /\ isRedisConnected[i]
    /\ isRedisConnected' = [isRedisConnected EXCEPT ![i] = FALSE]
    /\ queue' = [queue EXCEPT ![i] = [j \in DOMAIN @ |-> [@[j] EXCEPT !.res = "rejected"]]]
    /\ UNCHANGED <<now, store, isUpdating, refresh, call, dbPrice, persist, assetRow>>
    /\ UNCHANGED <<memVars, resolverVars>>

\* The Redis server executes the oldest command of instance i's connection
\* that it has not executed yet.
RedisExec(i, t) ==
    /\ ~Urgent
    /\ now' = t
    /\ \E j \in DOMAIN queue[i] :
        /\ queue[i][j].res = "pending"
        /\ \A h \in 1..(j - 1) : queue[i][h].res # "pending"
        /\ LET cmd == queue[i][j] IN
            /\ queue' = [queue EXCEPT ![i][j] =
                            [cmd EXCEPT !.res = "ok",
                                        !.val = IF cmd.op = "get" THEN StoreGet(t) ELSE None]]
            /\ store' = IF cmd.op = "set" THEN StoreSet(cmd.data[1], t) ELSE store
    /\ UNCHANGED <<isRedisConnected, isUpdating, refresh, call, dbPrice, persist, assetRow>>
    /\ UNCHANGED <<memVars, resolverVars>>

\* getPrices() is called on instance i: up to await this._readCacheFromRedis().
\* Not connected, the read resolves to null at once and the call goes on.
CallGetPrices(c, i) ==
    /\ ~Urgent
    /\ call[c].pc = "idle"
    /\ \A d \in Calls : d < c => call[d].pc # "idle"
    /\ LET me == [IdleCall EXCEPT !.kind = "getPrices", !.inst = i] IN
        IF isRedisConnected[i]
        THEN /\ queue' = [queue EXCEPT ![i] = Append(@, GetCmd("gp", c))]
             /\ call' = [call EXCEPT ![c] =
                            [me EXCEPT !.pc = "wait_get",
                                       !.overlap = {d \in Calls : /\ call[d].kind = "getPrices"
                                                                  /\ call[d].inst = i
                                                                  /\ call[d].pc = "wait_get"}]]
             /\ UNCHANGED <<isUpdating, refresh>>
        ELSE LET cl == [call EXCEPT ![c] =
                            Returned([me EXCEPT !.reply = "notconnected"], None, "miss")]
                 e == StartFetch(i, queue[i], cl, BackgroundWaiter(c), c)
             IN /\ isUpdating' = [isUpdating EXCEPT ![i] = e.u]
                /\ refresh' = [refresh EXCEPT ![i] = e.r]
                /\ queue' = [queue EXCEPT ![i] = e.q]
                /\ call' = e.cl
    /\ UNCHANGED <<now, store, isRedisConnected, dbPrice, persist, assetRow>>
    /\ UNCHANGED <<memVars, resolverVars>>

\* (variant) getPrices goes on to the refresh after a fresh hit too.
RefreshOnFreshHit_always(cachedData) == TRUE

\* The fresh branch of getPrices ends in return Object.freeze(cachedData).
RefreshOnFreshHit(cachedData) == FALSE

\* getPrices() resumes with the reply of its read: a fresh snapshot is
\* returned; otherwise _fetchAndCachePrices() is called without await and the
\* stale snapshot, or null, is returned.
GetPricesResume(i, t) ==
    /\ CanDeliver(i, "gp")
    /\ now' = t
    /\ LET cmd == Head(queue[i])
           c == cmd.c
           cachedData == ReadResult(cmd)
           me == [call[c] EXCEPT !.reply = ReplyKind(cmd)]
       IN IF ReadRaises(cmd)
          THEN /\ call' = [call EXCEPT ![c] = Returned(me, None, "rejected")]
               /\ queue' = [queue EXCEPT ![i] = Tail(@)]
               /\ UNCHANGED <<isUpdating, refresh>>
          ELSE IF cachedData # None /\ IsFresh(cachedData[1], t) /\ ~RefreshOnFreshHit(cachedData)
          THEN /\ call' = [call EXCEPT ![c] = Returned(me, cachedData, "fresh")]
               /\ queue' = [queue EXCEPT ![i] = Tail(@)]
               /\ UNCHANGED <<isUpdating, refresh>>
          ELSE LET cl == [call EXCEPT ![c] =
                              Returned(me, cachedData,
                                       IF cachedData # None THEN "stale" ELSE "miss")]
                   e == StartFetch(i, Tail(queue[i]), cl, BackgroundWaiter(c), c)
               IN /\ isUpdating' = [isUpdating EXCEPT ![i] = e.u]
                  /\ refresh' = [refresh EXCEPT ![i] = e.r]
                  /\ queue' = [queue EXCEPT ![i] = e.q]
                  /\ call' = e.cl
    /\ UNCHANGED <<store, isRedisConnected, dbPrice, persist, assetRow>>
    /\ UNCHANGED <<memVars, resolverVars>>

\* getFreshPrices() is called on instance i: await this._fetchAndCachePrices().
CallGetFreshPrices(c, i) ==
    /\ ~Urgent
    /\ call[c].pc = "idle"
    /\ \A d \in Calls : d < c => call[d].pc # "idle"
    /\ LET cl == [call EXCEPT ![c] = [IdleCall EXCEPT !.kind = "getFreshPrices", !.inst = i]]
           e == StartFetch(i, queue[i], cl, c, c)
       IN /\ isUpdating' = [isUpdating EXCEPT ![i] = e.u]
          /\ refresh' = [refresh EXCEPT ![i] = e.r]
          /\ queue' = [queue EXCEPT ![i] = e.q]
          /\ call' = e.cl
    /\ UNCHANGED <<now, store, isRedisConnected, dbPrice, persist, assetRow>>
    /\ UNCHANGED <<memVars, resolverVars>>

\* (variant) the run that finds an update in progress returns what that
\* update has built so far.
SkipResult_inFlight(i, cmd) == refresh[i].newData

\* return this._readCacheFromRedis(), of the run that finds an update in
\* progress.
SkipResult(i, cmd) == ReadResult(cmd)

\* The read taken because an update was in progress replies: its value is
\* what _fetchAndCachePrices returns (to getFreshPrices, or to nobody).
SkipReadResume(i) ==
    /\ CanDeliver(i, "skip")
    /\ LET cmd == Head(queue[i]) IN
        call' = IF cmd.c = 0 THEN call
                ELSE [call EXCEPT ![cmd.c] =
                        Returned([@ EXCEPT !.reply = ReplyKind(cmd)], SkipResult(i, cmd),
                                 IF ReadRaises(cmd) THEN "rejected" ELSE "skipped")]
    /\ queue' = [queue EXCEPT ![i] = Tail(@)]
    /\ UNCHANGED <<now, store, isRedisConnected, isUpdating, refresh, dbPrice, persist, assetRow>>
    /\ UNCHANGED <<memVars, resolverVars>>

\* previousPrices = await this._readCacheFromRedis() replies; the batch
\* request to the provider is sent.
RefreshPrevRead(i) ==
    /\ CanDeliver(i, "prev")
    /\ refresh[i].pc = "wait_prev"
    /\ queue' = [queue EXCEPT ![i] = Tail(@)]
    /\ IF ReadRaises(Head(queue[i]))
       THEN LET e == CatchBlock(i, call)
            IN /\ isUpdating' = [isUpdating EXCEPT ![i] = e.u]
               /\ refresh' = [refresh EXCEPT ![i] = e.r]
               /\ call' = e.cl
       ELSE /\ refresh' = [refresh EXCEPT ![i] = [@ EXCEPT !.pc = "fetching",
                                                            !.prev = ReadResult(Head(queue[i]))]]
            /\ UNCHANGED <<isUpdating, call>>
    /\ UNCHANGED <<now, store, isRedisConnected, dbPrice, persist, assetRow>>
    /\ UNCHANGED <<memVars, resolverVars>>

\* (variant) newCacheData is returned without being written.
WriteAttempted_never(connected) == FALSE

\* if (this.isRedisConnected) { ... await this.redisClient.set(...) }
WriteAttempted(connected) == connected

\* fetchPricesBatch settles: newCacheData is built and, when connected, its
\* write is sent; a throw goes to the catch block, which returns previousPrices.
FetchDone(i, resp, t) ==
    /\ ~Urgent
    /\ refresh[i].pc = "fetching"
    /\ now' = t
    /\ LET newCacheData == BuildNewCacheData(refresh[i].prev, fetchPricesBatch(resp), t) IN
        IF resp.status # "throw" /\ WriteAttempted(isRedisConnected[i])
        THEN /\ refresh' = [refresh EXCEPT ![i] = [@ EXCEPT !.pc = "wait_set",
                                                           !.fetched = Some(fetchPricesBatch(resp)),
                                                           !.newData = Some(newCacheData),
                                                           !.builtAt = t]]
             /\ queue' = [queue EXCEPT ![i] = Append(@, SetCmd(newCacheData))]
             /\ UNCHANGED <<isUpdating, call>>
        ELSE LET e == IF resp.status = "throw"
                      THEN CatchBlock(i, call)
                      ELSE Finish(i, RefreshResult(newCacheData, FALSE), "refreshed", call)
             IN /\ isUpdating' = [isUpdating EXCEPT ![i] = e.u]
                /\ refresh' = [refresh EXCEPT ![i] = e.r]
                /\ call' = e.cl
                /\ UNCHANGED queue
    /\ UNCHANGED <<store, isRedisConnected, dbPrice, persist, assetRow>>
    /\ UNCHANGED <<memVars, resolverVars>>

\* The write replies: on success the asset-store updates are started, on
\* failure the refresh returns newCacheData.
RefreshSetDone(i) ==
    /\ CanDeliver(i, "set")
    /\ refresh[i].pc = "wait_set"
    /\ queue' = [queue EXCEPT ![i] = Tail(@)]
    /\ IF Head(queue[i]).res = "ok"
       THEN /\ refresh' = [refresh EXCEPT ![i].pc = "wait_db"]
            /\ persist' = [calls |-> [k \in Keys |->
                                        IF k \in DbKeys(refresh[i].newData[1]) THEN 1 ELSE 0],
                           failed |-> {}]
            /\ UNCHANGED <<isUpdating, call>>
       ELSE LET e == IF Caught("write")
                     THEN Finish(i, RefreshResult(refresh[i].newData[1], FALSE), "refreshed", call)
                     ELSE CatchBlock(i, call)
            IN /\ isUpdating' = [isUpdating EXCEPT ![i] = e.u]
               /\ refresh' = [refresh EXCEPT ![i] = e.r]
               /\ call' = e.cl
               /\ UNCHANGED persist
    /\ UNCHANGED <<now, store, isRedisConnected, dbPrice, assetRow>>
    /\ UNCHANGED <<memVars, resolverVars>>

\* AssetRepository.updatePrice: where(eq(assets.symbol, symbol)), the equality
\* of two varchar values in PostgreSQL.
RowMatches(rowSymbol, symbol) == rowSymbol = symbol

\* Promise.allSettled(dbUpdatePromises) settles: the updates of failed did
\* not reach the asset store; the refresh returns newCacheData.
DbSettled(i, failed) ==
    /\ ~Urgent
    /\ refresh[i].pc = "wait_db"
    /\ LET snap == refresh[i].newData[1]
           e == Finish(i, RefreshResult(snap, TRUE), "refreshed", call)
       IN /\ dbPrice' = [k \in Keys |->
                            IF k \in Persisted(DbKeys(snap), failed) THEN snap[k]
                            ELSE dbPrice[k]]
          /\ assetRow' = [row \in AssetSymbols |->
                             IF \E k \in Persisted(DbKeys(snap), failed) : RowMatches(row, k)
                             THEN snap[CHOOSE k \in Persisted(DbKeys(snap), failed) :
                                            RowMatches(row, k)]
                             ELSE assetRow[row]]
          /\ persist' = [persist EXCEPT !.failed = failed \cap DbKeys(snap)]
          /\ isUpdating' = [isUpdating EXCEPT ![i] = e.u]
          /\ refresh' = [refresh EXCEPT ![i] = e.r]
          /\ call' = e.cl
    /\ UNCHANGED <<now, store, isRedisConnected, queue>>
    /\ UNCHANGED <<memVars, resolverVars>>

DbFailures == {{}, {"sol"}, Keys}

\* ------------------------------------------------ the in-memory variant
\* typeof value === 'number': true of NaN too.
TypeofNumber(v) == v.k \in {"num", "nan"}

\* a ?? b
Coalesce(a, b) == IF a.k = "null" THEN b ELSE a

\* newPrices.key, from the settled promise of the symbol.
NewPrice(prev, r, key) ==
    IF r.st = "fulfilled" /\ TypeofNumber(r.v) THEN r.v
    ELSE IF key = "usdc" THEN Coalesce(prev[key], Num(1))
    ELSE prev[key]

\* The object assigned to priceCache when the fan-out has settled.
MergedCache(prev, results, t) ==
    [btc |-> Coalesce(NewPrice(prev, results["btc"], "btc"), prev["btc"]),
     eth |-> Coalesce(NewPrice(prev, results["eth"], "eth"), prev["eth"]),
     sol |-> Coalesce(NewPrice(prev, results["sol"], "sol"), prev["sol"]),
     usdc |-> Coalesce(Coalesce(NewPrice(prev, results["usdc"], "usdc"), prev["usdc"]), Num(1)),
     xmr |-> Coalesce(NewPrice(prev, results["xmr"], "xmr"), prev["xmr"]),
     lastUpdated |-> Num(t)]

\* What the promise of a symbol's resolver can settle to: getUsdcPrice never
\* gives null, parseFloat can give NaN, a resolver may reject.
SettleOutcomes(key) ==
    CASE key = "btc" -> {Fulfilled(Null), Fulfilled(Num(2)), Fulfilled(NaN)}
      [] key = "sol" -> {Rejected, Fulfilled(Num(2))}
      [] key = "usdc" -> {Fulfilled(Num(1)), Fulfilled(Num(2))}
      [] OTHER -> {Fulfilled(Null), Fulfilled(Num(2))}

\* (variant) the results are merged as soon as one promise has settled.
AllSettled_first(results) == \E k \in Keys : results[k].st # "pending"

\* await Promise.allSettled([...]) resumes when every promise has settled.
AllSettled(results) == \A k \in Keys : results[k].st # "pending"

\* updatePrices() up to its await: nothing when an update is in progress;
\* otherwise the flag is set, priceCache is copied and the five resolvers are
\* called.
UpdatePricesStart ==
    IF isUpdatingGlobal
    THEN UNCHANGED <<isUpdatingGlobal, update>>
    ELSE /\ isUpdatingGlobal' = TRUE
         /\ update' = [previousPrices |-> Some(priceCache),
                       results |-> [k \in Keys |-> Pending]]

\* new PriceCacheService() / startBackgroundUpdate(): with no timer set, one
\* update is run at once and the timer is set.
StartBackgroundUpdate ==
    /\ ~updateInterval
    /\ updateInterval' = TRUE
    /\ UpdatePricesStart
    /\ UNCHANGED <<now, priceCache, reader>>
    /\ UNCHANGED <<redisVars, resolverVars>>

\* The setInterval callback runs updatePrices().
TimerFires ==
    /\ updateInterval
    /\ UpdatePricesStart
    /\ UNCHANGED <<now, priceCache, updateInterval, reader>>
    /\ UNCHANGED <<redisVars, resolverVars>>

\* stopBackgroundUpdate(), on SIGTERM or SIGINT.
StopBackgroundUpdate ==
    /\ updateInterval
    /\ updateInterval' = FALSE
    /\ UNCHANGED <<now, priceCache, isUpdatingGlobal, update, reader>>
    /\ UNCHANGED <<redisVars, resolverVars>>

\* The resolver of key settles.  When it is the last one, updatePrices
\* resumes: priceCache is replaced by the merged object and the flag cleared.
Settle(key, outcome, t) ==
    /\ isUpdatingGlobal
    /\ update.results[key].st = "pending"
    /\ now' = t
    /\ LET results == [update.results EXCEPT ![key] = outcome] IN
        IF AllSettled(results)
        THEN /\ priceCache' = MergedCache(update.previousPrices[1], results, t)
             /\ isUpdatingGlobal' = FALSE
             /\ update' = IdleUpdate
        ELSE /\ update' = [update EXCEPT !.results = results]
             /\ UNCHANGED <<priceCache, isUpdatingGlobal>>
    /\ UNCHANGED <<updateInterval, reader>>
    /\ UNCHANGED <<redisVars, resolverVars>>

\* getPrices(): Object.freeze({ ...priceCache }), what a reader is given.
MemGetPrices == priceCache

NextMem ==
    \/ StartBackgroundUpdate
    \/ TimerFires
    \/ StopBackgroundUpdate
    \/ \E key \in Keys : \E outcome \in SettleOutcomes(key), t \in Later : Settle(key, outcome, t)

\* The in-memory service: the Redis key plays no part.
InitMem == Init /\ store = NoKey

SpecMem == InitMem /\ [][NextMem]_vars

\* The times a reader gives to setTime on the Date it was handed.
ReaderTimes == {0}

\* { ...priceCache } copies the own properties of priceCache: the prices are
\* numbers, lastUpdated is the reference to the Date object of priceCache.
\* Object.freeze freezes the copy, not the Date. A reader assigns a price
\* property of the object getPrices() returned: the object is frozen, the
\* assignment throws in strict code and is ignored otherwise; priceCache is
\* another object and keeps its prices.
ReaderAssignsPrice(key, v, threw) ==
    /\ MemGetPrices[key] # v
    /\ reader' = [op |-> "assign", threw |-> threw]
    /\ UNCHANGED <<now, priceCache, isUpdatingGlobal, updateInterval, update>>
    /\ UNCHANGED <<redisVars, resolverVars>>

\* A reader calls getPrices().lastUpdated.setTime(t): the Date is the object
\* priceCache.lastUpdated refers to, and the one the previousPrices copy of an
\* updatePrices run in flight refers to.
ReaderSetsTime(t) ==
    /\ MemGetPrices.lastUpdated # Null
    /\ reader' = [op |-> "setTime", threw |-> FALSE]
    /\ priceCache' = [priceCache EXCEPT !.lastUpdated = Num(t)]
    /\ update' = IF isUpdatingGlobal
                 THEN [update EXCEPT !.previousPrices =
                          Some([update.previousPrices[1] EXCEPT !.lastUpdated = Num(t)])]
                 ELSE update
    /\ UNCHANGED <<now, isUpdatingGlobal, updateInterval>>
    /\ UNCHANGED <<redisVars, resolverVars>>

\* The in-memory service with its readers.
NextReaders ==
    \/ StartBackgroundUpdate
    \/ TimerFires
    \/ \E key \in Keys : \E outcome \in SettleOutcomes(key), t \in Later : Settle(key, outcome, t)
    \/ \E key \in Keys, threw \in BOOLEAN : ReaderAssignsPrice(key, Num(0), threw)
    \/ \E t \in ReaderTimes : ReaderSetsTime(t)

SpecReaders == InitMem /\ [][NextReaders]_vars

\* The steps of a process in which the instances I exist and the asset
\* updates of a refresh fail as one of the sets in F.
NextSteps(I, F) ==
    \/ \E i \in I : RedisConnect(i)
    \/ \E i \in I : RedisError(i)
    \/ \E i \in I, t \in Later : RedisExec(i, t)
    \/ \E c \in Calls, i \in I : CallGetPrices(c, i)
    \/ \E i \in I, t \in Later : GetPricesResume(i, t)
    \/ \E c \in Calls, i \in I : CallGetFreshPrices(c, i)
    \/ \E i \in I : SkipReadResume(i)
    \/ \E i \in I : RefreshPrevRead(i)
    \/ \E i \in I, resp \in Responses, t \in Later : FetchDone(i, resp, t)
    \/ \E i \in I : RefreshSetDone(i)
    \/ \E i \in I, failed \in F : DbSettled(i, failed)

\* The steps of a process in which the instances I exist.
NextOn(I) == NextSteps(I, DbFailures)

\* One PriceCacheService, the one the wallet router creates.
Next == NextOn(Service)

Spec == Init /\ [][Next]_vars

\* The steps of one PriceCacheService while the store stays reachable and
\* the batch request does not throw.
NextLive ==
    \/ \E i \in Service : RedisConnect(i)
    \/ \E i \in Service, t \in Later : RedisExec(i, t)
    \/ \E c \in Calls, i \in Service : CallGetPrices(c, i)
    \/ \E i \in Service, t \in Later : GetPricesResume(i, t)
    \/ \E c \in Calls, i \in Service : CallGetFreshPrices(c, i)
    \/ \E i \in Service : SkipReadResume(i)
    \/ \E i \in Service : RefreshPrevRead(i)
    \/ \E i \in Service, resp \in Responses \ {[status |-> "throw", data |-> AllIds(Null)]},
          t \in Later : FetchDone(i, resp, t)
    \/ \E i \in Service : RefreshSetDone(i)
    \/ \E i \in Service, failed \in DbFailures : DbSettled(i, failed)

\* What goes on by itself once started: the server executes the commands it
\* was sent, replies are delivered to the awaiting continuations, the batch
\* request settles, the asset updates settle.  Calls and the connect event
\* are up to the callers and the network.
LiveSteps ==
    \/ \E i \in Service, t \in Later : RedisExec(i, t)
    \/ \E i \in Service, t \in Later : GetPricesResume(i, t)
    \/ \E i \in Service : SkipReadResume(i)
    \/ \E i \in Service : RefreshPrevRead(i)
    \/ \E i \in Service, resp \in Responses \ {[status |-> "throw", data |-> AllIds(Null)]},
          t \in Later : FetchDone(i, resp, t)
    \/ \E i \in Service : RefreshSetDone(i)
    \/ \E i \in Service, failed \in DbFailures : DbSettled(i, failed)

SpecLive == Init /\ [][NextLive]_vars /\ WF_vars(LiveSteps)

\* Two PriceCacheService objects sharing the Redis key; the failures of the
\* asset updates are followed with one instance only.
NextShared == NextSteps(Instances, {{}})

SpecShared == Init /\ [][NextShared]_vars

\* ------------------------------------------- the multi-source CryptoPrice
\* private minDelayBetweenCalls = 1000
minDelayBetweenCalls == 1

\* retryCount < 3
RetryLimit == 3

\* The price field of a provider's body: absent, a JSON string or a JSON number.
Missing == [t |-> "missing", s |-> "", n |-> 0]
Str(s) == [t |-> "str", s |-> s, n |-> 0]
JNum(x) == [t |-> "num", s |-> "", n |-> x]

\* CoinCap (priceUsd) and Binance (price) send strings, Blockchain.info
\* (USD.last) and CoinGecko (usd) send numbers.
SendsStrings(p) == p \in {"coincap", "binance"}
Fields(p) ==
    IF SendsStrings(p) THEN {Missing, Str("2"), Str("abc")}
    ELSE {Missing, JNum(2), JNum(0 - 1)}

\* What axios.get settles to: a body, HTTP 429, or another failure (network
\* error, timeout, HTTP error).
HttpOutcomes(p) ==
    {[status |-> "ok", field |-> f] : f \in Fields(p)}
        \cup {[status |-> "429", field |-> Missing], [status |-> "err", field |-> Missing]}

AllHttpOutcomes == UNION {HttpOutcomes(p) : p \in Providers}

\* parseFloat of the strings above.
parseFloat(s) == CASE s = "2" -> Num(2) [] s = "0" -> Num(0) [] OTHER -> NaN

\* if (response.data?...): a non-empty string and a non-zero number are truthy.
FieldTruthy(f) == (f.t = "str" /\ f.s # "") \/ (f.t = "num" /\ f.n # 0)

\* What a Source Client returns on a body: the parsed field, or null.
SourceValue(p, f) ==
    IF ~FieldTruthy(f) THEN Null
    ELSE IF f.t = "str" THEN parseFloat(f.s)
    ELSE Num(f.n)

\* respectRateLimit: the delay needed before provider p may be called at time t.
respectRateLimit(p, t, la) ==
    IF t - la[p] < minDelayBetweenCalls THEN minDelayBetweenCalls - (t - la[p]) ELSE 0

\* error.response?.status === 429 && retryCount < 3
RetryAllowed(retryCount) == retryCount < RetryLimit

\* (variant) the backoff does not grow.
BackoffTime_flat(retryCount) == 1

\* Math.pow(2, retryCount) * 1000
BackoffTime(retryCount) == 2 ^ retryCount

\* The clock can come to show t: no timer and no answer due earlier is
\* passed over.
TimeOk(t) ==
    /\ t \in tick..MaxTick
    /\ \A s \in symbolsToFetch :
        resolution[s].pc \in {"rate_wait", "backoff", "http"} => t <= resolution[s].wake

\* getFromXxx(..., retryCount) up to its first suspension, for the Source
\* Client at index idx of sym's order: wait for the rate limit, or stamp
\* lastApiCall and send the request.
EnterSource(sym, r, idx, retry, t, la) ==
    LET p == SourceOrder[sym][idx]
        delayNeeded == respectRateLimit(p, t, la)
        r1 == [r EXCEPT !.src = idx, !.retryCount = retry,
                        !.tried = IF retry = 0 THEN Append(@, p) ELSE @,
                        !.requests = IF retry = 0 THEN 0 ELSE @]
    IN IF delayNeeded > 0
       THEN [r |-> [r1 EXCEPT !.pc = "rate_wait", !.wake = t + delayNeeded], la |-> la]
       ELSE [r |-> [r1 EXCEPT !.pc = "http", !.requests = @ + 1, !.wake = t + Latency],
             la |-> [la EXCEPT ![p] = t]]

\* (variant) the resolver returns whatever its first Source Client returned.
FallsThrough_never(v) == FALSE

\* if (price !== null) return price: only null sends the resolver on.
FallsThrough(v) == v = Null

\* (variant) the resolver returns 0 when every Source Client returned null.
AllFailed_zero(sym) == Num(0)

\* What getXxxPrice returns when every Source Client returned null.
AllFailed(sym) == IF sym = "USDC" THEN Num(1) ELSE Null

\* getPrice / getBitcoinPrice / getUsdcPrice resuming with the value v of the
\* Source Client they awaited: return it, or call the next one.
AfterSource(sym, r, v, t, la) ==
    IF ~FallsThrough(v)
    THEN [r |-> [r EXCEPT !.pc = "done", !.result = v], la |-> la]
    ELSE IF r.src < Len(SourceOrder[sym])
         THEN EnterSource(sym, r, r.src + 1, 0, t, la)
         ELSE [r |-> [r EXCEPT !.pc = "done", !.result = AllFailed(sym)], la |-> la]

\* getBitcoinPrice() ... getMoneroPrice() is called, as one of at most
\* maxRes calls.
GetXxxPrice(sym, maxRes) ==
    /\ resolution[sym].pc = "idle"
    /\ Cardinality({s \in symbolsToFetch : resolution[s].pc # "idle"}) < maxRes
    /\ LET e == EnterSource(sym, IdleResolution, 1, 0, tick, lastApiCall) IN
        /\ resolution' = [resolution EXCEPT ![sym] = e.r]
        /\ lastApiCall' = e.la
    /\ UNCHANGED <<tick, throttled>>
    /\ UNCHANGED <<now, redisVars, memVars, batch>>

\* The timer of respectRateLimit fires: lastApiCall is stamped and the
\* request sent.
RateLimitTimer(sym) ==
    /\ resolution[sym].pc = "rate_wait"
    /\ TimeOk(resolution[sym].wake)
    /\ tick' = resolution[sym].wake
    /\ lastApiCall' = [lastApiCall EXCEPT ![SourceOrder[sym][resolution[sym].src]] = tick']
    /\ resolution' = [resolution EXCEPT ![sym] =
                        [@ EXCEPT !.pc = "http", !.requests = @ + 1, !.wake = tick' + Latency]]
    /\ UNCHANGED throttled
    /\ UNCHANGED <<now, redisVars, memVars, batch>>

\* axios.get settles: on a 429 with retries left the backoff timer is set;
\* otherwise the Source Client returns and the resolver goes on.  The
\* providers answer 429 at most max429 times.
HttpReply(sym, out, max429) ==
    /\ resolution[sym].pc = "http"
    /\ out \in HttpOutcomes(SourceOrder[sym][resolution[sym].src])
    /\ TimeOk(resolution[sym].wake)
    /\ out.status = "429" => throttled < max429
    /\ tick' = resolution[sym].wake
    /\ throttled' = IF out.status = "429" THEN throttled + 1 ELSE throttled
    /\ LET r == resolution[sym]
           p == SourceOrder[sym][r.src]
           t == r.wake
       IN IF out.status = "429" /\ RetryAllowed(r.retryCount)
          THEN /\ resolution' = [resolution EXCEPT ![sym] =
                                    [r EXCEPT !.pc = "backoff",
                                              !.wake = t + BackoffTime(r.retryCount)]]
               /\ UNCHANGED lastApiCall
          ELSE LET v == IF out.status = "ok" THEN SourceValue(p, out.field) ELSE Null
                   e == AfterSource(sym, [r EXCEPT !.got = Append(@, v)], v, t, lastApiCall)
               IN /\ resolution' = [resolution EXCEPT ![sym] = e.r]
                  /\ lastApiCall' = e.la
    /\ UNCHANGED <<now, redisVars, memVars, batch>>

\* The backoff timer fires: the Source Client calls itself with retryCount + 1.
BackoffTimer(sym) ==
    /\ resolution[sym].pc = "backoff"
    /\ TimeOk(resolution[sym].wake)
    /\ tick' = resolution[sym].wake
    /\ LET r == resolution[sym]
           e == EnterSource(sym, r, r.src, r.retryCount + 1, r.wake, lastApiCall)
       IN /\ resolution' = [resolution EXCEPT ![sym] = e.r]
          /\ lastApiCall' = e.la
    /\ UNCHANGED throttled
    /\ UNCHANGED <<now, redisVars, memVars, batch>>

\* One CryptoPrice client and the callers of its getXxxPrice methods.
NextResolver ==
    \/ \E sym \in symbolsToFetch : GetXxxPrice(sym, MaxResolutions)
    \/ \E sym \in symbolsToFetch : RateLimitTimer(sym)
    \/ \E sym \in symbolsToFetch :
        \E out \in AllHttpOutcomes : HttpReply(sym, out, Max429)
    \/ \E sym \in symbolsToFetch : BackoffTimer(sym)

InitResolver == Init /\ store = NoKey

SpecResolver == InitResolver /\ [][NextResolver]_vars

\* The same client when no provider throttles: more calls are followed.
NextFanOut ==
    \/ \E sym \in symbolsToFetch : GetXxxPrice(sym, FanOut)
    \/ \E sym \in symbolsToFetch : RateLimitTimer(sym)
    \/ \E sym \in symbolsToFetch :
        \E out \in AllHttpOutcomes : HttpReply(sym, out, 0)

SpecFanOut == InitResolver /\ [][NextFanOut]_vars

\* ------------------------------------------- CryptoPrice.fetchPricesBatch
\* The symbols fetchPricesBatch is called with: mapped ones in either case
\* and one that SYMBOL_TO_COINGECKO_ID does not have.
BatchSymbols == {"BTC", "eth", "DOGE"}

\* symbol.toUpperCase()
toUpperCase == [BTC |-> "BTC", eth |-> "ETH", DOGE |-> "DOGE"]

\* SYMBOL_TO_COINGECKO_ID[symbol.toUpperCase()] is defined.
HasMapping(symbol) == toUpperCase[symbol] \in DOMAIN SYMBOL_TO_COINGECKO_ID

\* symbols.map(...).filter(id => !!id)
coinGeckoIds(symbols) ==
    {SYMBOL_TO_COINGECKO_ID[toUpperCase[s]] : s \in {x \in symbols : HasMapping(x)}}

\* The prices object built from a body: the usd field when it is truthy,
\* null otherwise, under the upper-case symbol.
BatchPrices(symbols, data) ==
    [u \in {toUpperCase[s] : s \in symbols} |->
        IF u \in DOMAIN SYMBOL_TO_COINGECKO_ID /\ Truthy(data[SYMBOL_TO_COINGECKO_ID[u]])
        THEN data[SYMBOL_TO_COINGECKO_ID[u]]
        ELSE Null]

\* errorResult: null for every requested symbol.
BatchErrorResult(symbols) == [u \in {toUpperCase[s] : s \in symbols} |-> Null]

\* What axios.get of the batch URL settles to.
BatchOutcomes ==
    {[status |-> "ok", data |-> d] : d \in OkData}
        \cup {[status |-> "429", data |-> AllIds(Null)], [status |-> "err", data |-> AllIds(Null)]}

\* fetchPricesBatch from respectRateLimit on: wait for the rate limit, or
\* stamp lastApiCall and send the request.
EnterBatch(b, retry, t) ==
    LET delayNeeded == IF t - b.lastCall < minDelayBetweenCalls
                       THEN minDelayBetweenCalls - (t - b.lastCall) ELSE 0
    IN IF delayNeeded > 0
       THEN [b EXCEPT !.pc = "rate_wait", !.retryCount = retry, !.wake = t + delayNeeded]
       ELSE [b EXCEPT !.pc = "http", !.retryCount = retry, !.wake = t, !.lastCall = t]

\* fetchPricesBatch(symbols) is called: with no mappable symbol it returns {}
\* at once.
CallFetchPricesBatch(symbols) ==
    /\ batch.pc \in {"idle", "done"}
    /\ tick < MaxTick
    /\ LET b == [batch EXCEPT !.symbols = symbols, !.result = EmptyMap] IN
        batch' = IF coinGeckoIds(symbols) = {}
                 THEN [b EXCEPT !.pc = "done", !.retryCount = 0]
                 ELSE EnterBatch(b, 0, tick)
    /\ UNCHANGED <<tick, lastApiCall, resolution, throttled>>
    /\ UNCHANGED <<now, redisVars, memVars>>

\* The timer of respectRateLimit fires.
BatchRateLimitTimer ==
    /\ batch.pc = "rate_wait"
    /\ TimeOk(batch.wake)
    /\ tick' = batch.wake
    /\ batch' = [batch EXCEPT !.pc = "http", !.wake = tick', !.lastCall = tick']
    /\ UNCHANGED <<lastApiCall, resolution, throttled>>
    /\ UNCHANGED <<now, redisVars, memVars>>

\* axios.get settles: the prices object is returned; or, in the catch block,
\* the backoff timer is set on a 429 with retries left and errorResult is
\* returned otherwise.  The answer comes within the second of the request
\* (took = 0) or Latency later.
BatchHttpReply(out, took) ==
    /\ batch.pc = "http"
    /\ TimeOk(batch.wake + took)
    /\ tick' = batch.wake + took
    /\ batch' =
        IF out.status = "ok"
        THEN [batch EXCEPT !.pc = "done", !.result = BatchPrices(batch.symbols, out.data)]
        ELSE IF out.status = "429" /\ RetryAllowed(batch.retryCount)
        THEN [batch EXCEPT !.pc = "backoff", !.wake = tick' + BackoffTime(batch.retryCount)]
        ELSE [batch EXCEPT !.pc = "done", !.result = BatchErrorResult(batch.symbols)]
    /\ UNCHANGED <<lastApiCall, resolution, throttled>>
    /\ UNCHANGED <<now, redisVars, memVars>>

\* The backoff timer fires: fetchPricesBatch(symbols, retryCount + 1).
BatchBackoffTimer ==
    /\ batch.pc = "backoff"
    /\ TimeOk(batch.wake)
    /\ tick' = batch.wake
    /\ batch' = EnterBatch(batch, batch.retryCount + 1, tick')
    /\ UNCHANGED <<lastApiCall, resolution, throttled>>
    /\ UNCHANGED <<now, redisVars, memVars>>

\* One CryptoPrice client and the callers of its fetchPricesBatch.
NextBatch ==
    \/ \E symbols \in SUBSET BatchSymbols : CallFetchPricesBatch(symbols)
    \/ BatchRateLimitTimer
    \/ \E out \in BatchOutcomes, took \in {0, Latency} : BatchHttpReply(out, took)
    \/ BatchBackoffTimer

SpecBatch == InitResolver /\ [][NextBatch]_vars

\* ------------------------------------------------------------------ claims
GetPricesCalls == {c \in Calls : call[c].kind = "getPrices"}
GetFreshCalls == {c \in Calls : call[c].kind = "getFreshPrices"}
InFlight(i) == refresh[i].pc # "idle"

\* The reply delivered in this step is the one getPrices call c waits for.
ReadReplied(c) ==
    /\ call[c].pc = "wait_get"
    /\ call'[c] # call[c]

\* The SET of instance i is executed by the server in this step.
SetExecuted(i) ==
    \E j \in DOMAIN queue[i] :
        /\ queue[i][j].op = "set"
        /\ queue[i][j].res = "pending"
        /\ j \in DOMAIN queue'[i]
        /\ queue'[i][j].res = "ok"

\* C1: of two getPrices reads of one instance that are pending at the same
\* time, at most one passes the isUpdating test and starts a fetch fan-out.
C1_SingleFlight ==
    \A c \in GetPricesCalls : \A d \in call[c].overlap :
        ~(call[c].started /\ call[d].started)

\* Two overlapping reads both found the snapshot stale and one fetch started.
C1_Witness ==
    \E c \in GetPricesCalls : \E d \in call[c].overlap :
        /\ call[c].pc = "done" /\ call[d].pc = "done"
        /\ call[c].how = "stale" /\ call[d].how = "stale"
        /\ (call[c].started \/ call[d].started)

\* C2: at most one refresh is in flight over all the instances that share
\* the store.
C2_OneRefreshSystemWide == Cardinality({i \in Instances : InFlight(i)}) <= 1

\* C3: a refresh that writes the store leaves the stored price of every
\* symbol whose resolution failed as it was before the write.
C3_FailedKeepsStoredPrice ==
    [][\A i \in Instances : \A k \in Keys :
          (/\ SetExecuted(i)
           /\ StoreGet(now') # None
           /\ ~IsValidNumber(refresh[i].fetched[1][SymbolOf[k]]))
          => store'.data[1][k] = StoreGet(now')[1][k]]_vars

C5_WaitsForInFlight ==
    \A c \in GetFreshCalls :
        (call[c].pc = "done" /\ call[c].inflight # 0)
            => ~(InFlight(call[c].inst) /\ refresh[call[c].inst].trigger = call[c].inflight)

\* C6: a getPrices read whose reply is a stale snapshot returns that snapshot
\* in the very step of the reply, changes neither the store nor a running
\* refresh, and leaves a refresh in flight that no call awaits on its behalf:
\* the one it started, still before the provider's answer, when none was
\* running.
C6_StaleReadReturnsAtOnce ==
    [][\A c \in Calls :
          LET i == call[c].inst
              cmd == Head(queue[i])
          IN (/\ ReadReplied(c)
              /\ cmd.res = "ok" /\ cmd.val # None
              /\ ~IsFresh(cmd.val[1], now'))
             => /\ call'[c].pc = "done"
                /\ call'[c].result = cmd.val
                /\ store' = store
                /\ isUpdating'[i]
                /\ InFlight(i) => refresh'[i] = refresh[i]
                /\ ~InFlight(i) => /\ refresh'[i].pc \in {"wait_prev", "fetching"}
                                   /\ refresh'[i].trigger = c
                                   /\ refresh'[i].waiter = 0]_vars

\* A read has returned a stale snapshot and the refresh it started is still
\* waiting for the provider.
C6_Witness ==
    \E c \in GetPricesCalls :
        /\ call[c].pc = "done" /\ call[c].how = "stale" /\ call[c].started
        /\ refresh[call[c].inst].trigger = c
        /\ refresh[call[c].inst].pc = "fetching"

\* C7: the flag is set exactly while a refresh is in flight; a refresh that
\* threw leaves it clear.
C7_FlagClearedWhenNoRefresh ==
    \A i \in Instances : isUpdating[i] <=> InFlight(i)

\* A refresh threw, and a later trigger started a new refresh.
C7_Witness ==
    \E c \in Calls, d \in Calls :
        /\ call[c].how = "thrown" /\ call[c].pc = "done"
        /\ call[d].inst = call[c].inst /\ call[d].started
        /\ refresh[call[d].inst].trigger = d
        /\ InFlight(call[d].inst)

\* C8: what a reader is given is the pre-refresh snapshot for as long as the
\* refresh is in flight, whatever results have been collected; it changes
\* only in the step in which the last symbol's result is collected, and then
\* every symbol holds its merged value.
C8_NoPartialSnapshot ==
    [][/\ isUpdatingGlobal => MemGetPrices = update.previousPrices[1]
       /\ isUpdatingGlobal' => MemGetPrices' = update'.previousPrices[1]
       /\ MemGetPrices' # MemGetPrices =>
            /\ isUpdatingGlobal /\ ~isUpdatingGlobal'
            /\ Cardinality({k \in Keys : update.results[k].st = "pending"}) = 1
            /\ MemGetPrices'.lastUpdated = Num(now')
            /\ \A k \in Keys :
                 LET r == update.results[k]
                     prev == update.previousPrices[1][k]
                 IN \/ r.st = "pending"
                    \/ /\ r.st = "fulfilled" /\ r.v.k \in {"num", "nan"}
                       /\ MemGetPrices'[k] = r.v
                    \/ /\ ~(r.st = "fulfilled" /\ r.v.k \in {"num", "nan"})
                       /\ MemGetPrices'[k] = IF k = "usdc" /\ prev.k = "null" THEN Num(1) ELSE prev]_vars

\* A refresh over an existing snapshot has collected a new price for one
\* symbol while another is still being resolved, and readers are still given
\* the old price.
C8_Witness ==
    /\ isUpdatingGlobal
    /\ MemGetPrices.lastUpdated # Null
    /\ \E k \in Keys :
        /\ update.results[k].st = "fulfilled"
        /\ update.results[k].v.k = "num"
        /\ MemGetPrices[k] # update.results[k].v
    /\ \E k \in Keys : update.results[k].st = "pending"

\* C9 (as claimed): getPrices returns null only when no snapshot was ever
\* stored.
C9_NullOnlyWhenEmpty ==
    [][\A c \in Calls :
          (/\ call'[c].kind = "getPrices"
           /\ call[c].pc # "done" /\ call'[c].pc = "done"
           /\ call'[c].result = None)
          => store.data = None]_vars

\* C9 (amended): getPrices returns null exactly when its read of the store
\* yields no snapshot (not connected, the read rejected, no key or an expired
\* one); when the read yields a snapshot it returns that snapshot.
C9_NullOnlyWhenReadYieldsNothing ==
    [][\A c \in Calls :
          (/\ call'[c].kind = "getPrices"
           /\ call[c].pc # "done" /\ call'[c].pc = "done")
          => IF call[c].pc = "wait_get" /\ Head(queue[call[c].inst]).res = "ok"
             THEN call'[c].result = Head(queue[call[c].inst]).val
             ELSE call'[c].result = None]_vars

\* A read returned null although a snapshot is stored: its instance was not
\* connected or its read was rejected.
C9_Witness ==
    \E c \in GetPricesCalls :
        /\ call[c].pc = "done" /\ call[c].result = None
        /\ call[c].reply \in {"notconnected", "err"}
        /\ store.data # None

\* C10 (as claimed): every refresh that ends without throwing leaves a stored
\* snapshot whose lastUpdated is the time the refresh ended.
C10_CompletedRefreshStamps ==
    [][\A i \in Instances :
          (/\ InFlight(i) /\ ~InFlight(i)'
           /\ \A c \in Calls : call'[c].how # "thrown" \/ call[c].how = "thrown")
          => /\ store'.data # None
             /\ store'.data[1].lastUpdated = Num(now')]_vars

\* C10 (amended): every store write of a refresh sets the stored lastUpdated
\* to the time the refresh built its snapshot, whether or not a symbol was
\* resolved; and a read that finds now - lastUpdated under the stale
\* threshold returns the snapshot and starts no refresh.
C10_WriteStampsBuildTime ==
    [][/\ \A i \in Instances :
            SetExecuted(i) =>
                /\ store'.data # None
                /\ store'.data[1].lastUpdated = Num(refresh[i].builtAt)
                /\ store'.exp = now' + CACHE_TTL_MIN
       /\ \A c \in Calls :
            LET i == call[c].inst
                cmd == Head(queue[i])
            IN (/\ ReadReplied(c)
                /\ cmd.res = "ok" /\ cmd.val # None
                /\ cmd.val[1].lastUpdated.k = "num"
                /\ now' - cmd.val[1].lastUpdated.n < CACHE_STALE_MIN)
               => /\ call'[c].how = "fresh"
                  /\ ~call'[c].started
                  /\ refresh' = refresh
                  /\ isUpdating' = isUpdating]_vars

\* A refresh that resolved no symbol has written the store: the prices are
\* the previous ones and lastUpdated is the time the snapshot was built.
C10_Witness ==
    \E i \in Instances :
        /\ refresh[i].pc = "wait_db"
        /\ \A s \in symbolsToFetch : ~IsValidNumber(refresh[i].fetched[1][s])
        /\ refresh[i].prev # None
        /\ store.data = refresh[i].newData
        /\ store.data[1].lastUpdated = Num(refresh[i].builtAt)
        /\ store.data[1].lastUpdated # refresh[i].prev[1].lastUpdated

C12_StoredPricesPositive ==
    \A k \in Keys :
        priceCache[k] # Null => (priceCache[k].k = "num" /\ priceCache[k].n > 0)

\* C13: no call of getPrices or getFreshPrices rejects: a call that has ended
\* returned a snapshot or null, whatever failed in the provider, in the
\* store or in the asset store.
C13_CallsNeverReject ==
    \A c \in Calls :
        /\ call[c].how # "rejected"
        /\ call[c].pc = "done" => (call[c].result = None \/ Len(call[c].result) = 1)

\* A getPrices call whose read was rejected by a dropped connection returned
\* null, and a getFreshPrices call returned while the store was unreachable.
C13_Witness ==
    \E c \in Calls, d \in Calls :
        /\ call[c].kind = "getPrices" /\ call[c].pc = "done"
        /\ call[c].reply = "err" /\ call[c].result = None
        /\ call[d].kind = "getFreshPrices" /\ call[d].pc = "done"
        /\ ~isRedisConnected[call[d].inst]

\* C14: a Source Client call answered 429 sets a timer of 1000 ms * 2^retryCount
\* and, when it fires, sends the request again with retryCount + 1, as long as
\* retryCount is under 3; answered 429 with retryCount = 3 it returns null; so
\* one Source Client call sends at most 4 requests.
C14_BackoffThenGiveUp ==
    [][\A s \in symbolsToFetch :
        LET r == resolution[s]
            r2 == resolution'[s]
        IN /\ r2.requests <= RetryLimit + 1
           /\ (r.pc = "http" /\ throttled' = throttled + 1 /\ r2 # r) =>
                IF r.retryCount < 3
                THEN /\ r2.pc = "backoff"
                     /\ r2.wake = tick' + 2 ^ r.retryCount
                     /\ r2.requests = r.requests
                ELSE /\ Len(r2.got) = Len(r.got) + 1
                     /\ r2.got[Len(r2.got)] = Null
           /\ (r.pc = "backoff" /\ r2 # r) =>
                /\ tick' >= r.wake
                /\ r2.src = r.src
                /\ r2.retryCount = r.retryCount + 1
                /\ r2.pc \in {"rate_wait", "http"}]_vars

\* A Source Client call, the last of its symbol's order, was answered 429
\* four times and gave up.
C14_Witness ==
    \E s \in symbolsToFetch :
        /\ resolution[s].pc = "done"
        /\ resolution[s].retryCount = RetryLimit
        /\ resolution[s].requests = RetryLimit + 1
        /\ resolution[s].result = AllFailed(s)
        /\ throttled = Max429

\* C15 (as claimed): a request sent to a provider comes at least 1000 ms after
\* the request sent to the same provider before it.
C15_CallsSpacedApart ==
    [][\A s \in symbolsToFetch :
        LET r == resolution[s]
            r2 == resolution'[s]
        IN (r2.pc = "http" /\ (r.pc # "http" \/ r2.src # r.src)) =>
            LET p == SourceOrder[s][r2.src] IN
                lastApiCall[p] = 0 \/ tick' - lastApiCall[p] >= minDelayBetweenCalls]_vars

\* A read at time t of the key in state st finds a snapshot.
Readable(st, t) == st.data # None /\ t < st.exp

\* C16 (as claimed): a snapshot that can be read can be read in every later
\* state, and the stored snapshot changes only by the write of a refresh.
C16_NeverDeleted ==
    [][/\ Readable(store, now) => Readable(store', now')
       /\ store' # store => \E i \in Instances : SetExecuted(i)]_vars

\* C16 (amended): the stored snapshot changes only by the write of a refresh,
\* never by a read; a write makes it readable for CACHE_TTL_SECONDS; a
\* snapshot that could be read stops being readable only when that time has
\* run out with no write in between.
C16_SupersededOrExpired ==
    [][/\ store' # store => \E i \in Instances : SetExecuted(i)
       /\ \A i \in Instances :
            SetExecuted(i) =>
                /\ store'.data # None
                /\ store'.exp = now' + CACHE_TTL_MIN
       /\ (Readable(store, now) /\ ~Readable(store', now')) =>
            (store' = store /\ now' >= store.exp)]_vars

\* A read found the stored snapshot, and a later read found none: the key had
\* expired, nothing having deleted it.
C16_Witness ==
    \E c \in Calls, d \in Calls :
        /\ call[c].reply = "hit"
        /\ call[d].reply = "miss"
        /\ store.data # None
        /\ now >= store.exp

\* C17: with the store unreachable, a getPrices read returns null; a refresh
\* that finds the client not connected when its fetch settles, or whose write
\* is rejected, ends without touching the store and returns to the call
\* awaiting it the snapshot it built from the fetched prices.
C17_DegradesWithoutStore ==
    [][/\ \A c \in Calls :
            (/\ call[c].pc # "done" /\ call'[c].pc = "done"
             /\ call'[c].kind = "getPrices"
             /\ call'[c].reply \in {"notconnected", "err"})
            => (call'[c].result = None /\ call'[c].how = "miss")
       /\ \A i \in Instances :
            LET w == refresh[i].waiter IN
                /\ (/\ refresh[i].pc = "fetching" /\ refresh'[i].pc # "fetching"
                    /\ ~isRedisConnected[i]
                    /\ w # 0 /\ call'[w].how # "thrown")
                   => /\ refresh'[i].pc = "idle" /\ ~isUpdating'[i]
                      /\ store' = store
                      /\ call'[w].pc = "done"
                      /\ call'[w].result # None
                      /\ call'[w].result[1].lastUpdated = Num(now')
                      /\ \A k \in Keys :
                            call'[w].result[1][k] # Null
                                \/ refresh[i].prev = None
                                \/ refresh[i].prev[1][k] = Null
                /\ (/\ refresh[i].pc = "wait_set" /\ refresh'[i].pc # "wait_set"
                    /\ Head(queue[i]).res = "rejected"
                    /\ w # 0)
                   => /\ refresh'[i].pc = "idle" /\ ~isUpdating'[i]
                      /\ store' = store
                      /\ call'[w].pc = "done"
                      /\ call'[w].result = refresh[i].newData]_vars

\* With nothing stored and the client never connected, a getFreshPrices call
\* returned the snapshot its refresh built, and a getPrices call returned null.
C17_Witness ==
    \E c \in Calls, d \in Calls :
        /\ call[c].kind = "getFreshPrices" /\ call[c].pc = "done"
        /\ call[c].how = "refreshed" /\ call[c].result # None
        /\ call[c].result[1].btc = Num(2)
        /\ call[d].kind = "getPrices" /\ call[d].pc = "done"
        /\ call[d].reply = "notconnected" /\ call[d].result = None
        /\ ~isRedisConnected[call[c].inst]
        /\ store = NoKey

\* C18: when updateAssetPrice fails for some symbols, the refresh still ends
\* normally: the stored snapshot is untouched, the call awaiting the refresh
\* gets the snapshot the refresh built, the flag is cleared, and every other
\* symbol that was handed to updateAssetPrice has its price in the asset store.
C18_PersistFailureIsolated ==
    [][\A i \in Instances :
          (refresh[i].pc = "wait_db" /\ refresh'[i].pc # "wait_db")
          => LET snap == refresh[i].newData[1]
                 w == refresh[i].waiter
             IN /\ store' = store
                /\ refresh'[i].pc = "idle" /\ ~isUpdating'[i]
                /\ w # 0 => /\ call'[w].pc = "done"
                            /\ call'[w].how = "refreshed"
                            /\ call'[w].result = Some(snap)
                /\ \A k \in Keys :
                      (persist.calls[k] = 1 /\ k \notin persist'.failed)
                      => dbPrice'[k] = snap[k]]_vars

\* A getFreshPrices call returned the stored snapshot although the asset
\* update of sol failed; the btc price of that snapshot reached the asset
\* store and the sol price did not.
C18_Witness ==
    \E c \in Calls :
        /\ call[c].pc = "done" /\ call[c].how = "refreshed"
        /\ call[c].kind = "getFreshPrices"
        /\ call[c].result # None /\ call[c].result = store.data
        /\ persist.failed = {"sol"}
        /\ persist.calls["btc"] = 1
        /\ dbPrice["btc"] = call[c].result[1]["btc"]
        /\ dbPrice["sol"] # call[c].result[1]["sol"]
        /\ ~isUpdating[call[c].inst]

\* C19 (as claimed): the refresh calls updateAssetPrice once for exactly the
\* symbols whose price it resolved, and for no symbol whose resolution failed.
C19_OncePerResolvedSymbol ==
    [][\A i \in Instances :
          (refresh[i].pc = "wait_db" /\ refresh'[i].pc # "wait_db")
          => \A k \in Keys :
                persist'.calls[k] = 1
                    <=> IsValidNumber(refresh[i].fetched[1][SymbolOf[k]])]_vars

\* C19 (amended): updateAssetPrice is called only by a refresh whose store
\* write succeeded, once for each key whose price in the written snapshot is
\* a number and not at all for the others; settling the calls repeats none
\* of them, failed or not; no other step calls it.
C19_OncePerNumberInSnapshot ==
    [][/\ \A i \in Instances :
            /\ (refresh[i].pc = "wait_set" /\ refresh'[i].pc = "wait_db")
               => /\ store.data = refresh[i].newData
                  /\ persist'.failed = {}
                  /\ \A k \in Keys :
                        persist'.calls[k] =
                            IF refresh[i].newData[1][k] \notin {Null, NaN} THEN 1 ELSE 0
            /\ (refresh[i].pc = "wait_db" /\ refresh'[i].pc # "wait_db")
               => /\ persist'.calls = persist.calls
                  /\ \A k \in persist'.failed : persist.calls[k] = 1
       /\ (\A i \in Instances :
               /\ ~(refresh[i].pc = "wait_set" /\ refresh'[i].pc = "wait_db")
               /\ ~(refresh[i].pc = "wait_db" /\ refresh'[i].pc # "wait_db"))
          => persist' = persist]_vars

\* A refresh that resolved btc and neither sol nor eth wrote a snapshot
\* carrying the earlier sol price and no eth price, and has called
\* updateAssetPrice once for btc and sol and not for eth.
C19_Witness ==
    \E i \in Instances :
        /\ refresh[i].pc = "wait_db"
        /\ IsValidNumber(refresh[i].fetched[1]["BTC"])
        /\ ~IsValidNumber(refresh[i].fetched[1]["SOL"])
        /\ ~IsValidNumber(refresh[i].fetched[1]["ETH"])
        /\ refresh[i].prev # None
        /\ refresh[i].newData[1]["sol"] = refresh[i].prev[1]["sol"]
        /\ refresh[i].newData[1]["sol"] # Null
        /\ refresh[i].newData[1]["eth"] = Null
        /\ persist.calls["btc"] = 1
        /\ persist.calls["sol"] = 1
        /\ persist.calls["eth"] = 0
        /\ persist.failed = {}

\* C20: no operation of a reader on the object getPrices returned changes
\* what getPrices returns to later readers.
C20_ReadersChangeNothing ==
    [][reader' # reader => MemGetPrices' = MemGetPrices]_vars

\* C21: when fetchPricesBatch has returned, its result holds, for every
\* symbol it was asked for, a number or null.
C21_EverySymbolAnswered ==
    batch.pc = "done" =>
        \A s \in batch.symbols :
            /\ toUpperCase[s] \in DOMAIN batch.result
            /\ batch.result[toUpperCase[s]].k \in {"num", "null"}

\* C22: when the batch answer of a refresh has null for a symbol, the
\* per-symbol resolution of that symbol through the Source Clients is started
\* before the refresh builds its snapshot and sends it to the store.
C22_NullFromBatchFallsBack ==
    [][\A i \in Instances :
          (refresh[i].pc = "fetching" /\ refresh'[i].pc = "wait_set")
          => \A sym \in symbolsToFetch :
                refresh'[i].fetched[1][sym] = Null => resolution'[sym].pc # "idle"]_vars

\* C28: when the asset updates of a refresh have settled, the rows of the
\* assets table of every symbol whose update did not fail carry the price of
\* that symbol in the snapshot.
C28_AssetsRevalued ==
    [][\A i \in Instances :
          (refresh[i].pc = "wait_db" /\ refresh'[i].pc # "wait_db")
          => \A k \in Keys :
                (persist.calls[k] = 1 /\ k \notin persist'.failed)
                => assetRow'[SymbolOf[k]] = refresh[i].newData[1][k]]_vars

\* C23: the run that passes the flag test sets the flag before it suspends:
\* the step in which a refresh begins leaves the flag set, the read of the
\* previous snapshot is sent only with the flag set, and the batch request
\* begins only with the flag set.
C23_FlagSetBeforeFirstAwait ==
    [][\A i \in Instances :
          /\ (refresh[i].pc = "idle" /\ refresh'[i].pc # "idle")
             => (~isUpdating[i] /\ isUpdating'[i])
          /\ (\E j \in DOMAIN queue'[i] :
                 /\ queue'[i][j].k = "prev"
                 /\ queue'[i][j].res = "pending")
             => isUpdating'[i]
          /\ (refresh[i].pc # "fetching" /\ refresh'[i].pc = "fetching")
             => /\ isUpdating'[i]
                /\ refresh[i].pc = "wait_prev" => isUpdating[i]]_vars

\* A refresh has sent the read of the previous snapshot, the server has not
\* executed it yet, and the flag is set.
C23_Witness ==
    \E i \in Instances :
        /\ refresh[i].pc = "wait_prev"
        /\ isUpdating[i]
        /\ \E j \in DOMAIN queue[i] : queue[i][j].k = "prev" /\ queue[i][j].res = "pending"

\* Call c, made on instance i, returns in this step as a trigger that
\* started no refresh, and the refresh of i is in flight before and after
\* the step.
ReturnsDuringRefresh(c, i) ==
    /\ call[c].pc # "done" /\ call'[c].pc = "done"
    /\ call'[c].inst = i
    /\ call'[c].how \in {"skipped", "stale", "miss"}
    /\ ~call'[c].started
    /\ refresh[i].pc # "idle" /\ refresh'[i].pc # "idle"
    /\ refresh'[i].trigger = refresh[i].trigger

\* C24 (as claimed): a trigger that returns while a refresh is in flight
\* never returns the snapshot that refresh has built.
C24_NeverInFlightResult ==
    [][\A c \in Calls, i \in Instances :
          ReturnsDuringRefresh(c, i)
          => \/ refresh[i].newData = None
             \/ call'[c].result # refresh[i].newData]_vars

\* C24 (amended): a trigger that returns while a refresh is in flight leaves
\* the refresh and the store alone and returns null or the snapshot its read
\* found in the store: the stored snapshot as long as the refresh has not
\* sent its write, and otherwise either the snapshot the refresh wrote or
\* the one that write has superseded.
C24_ReturnsWhatItsReadFound ==
    [][\A c \in Calls, i \in Instances :
          ReturnsDuringRefresh(c, i)
          =>    /\ store' = store
                /\ refresh'[i] = refresh[i]
                /\ refresh[i].pc \in {"wait_prev", "fetching"}
                   => call'[c].result \in {None, store.data}
                /\ call'[c].result \notin {None, store.data}
                   => store.data = refresh[i].newData]_vars

\* A getFreshPrices call found a refresh in flight and returned the snapshot
\* that refresh had written, while the refresh was still in flight.
C24_Witness ==
    \E c \in Calls :
        /\ call[c].kind = "getFreshPrices"
        /\ call[c].pc = "done" /\ call[c].how = "skipped"
        /\ InFlight(call[c].inst)
        /\ refresh[call[c].inst].trigger = call[c].inflight
        /\ call[c].result # None
        /\ call[c].result = refresh[call[c].inst].newData

\* C25: a getPrices read whose reply is a snapshot with now - lastUpdated
\* under the stale threshold returns that snapshot in the step of the reply;
\* the step sends no command to the store, starts no refresh and no provider
\* request, and leaves the store, the flags and every refresh as they were.
C25_FreshReadTouchesNothing ==
    [][\A c \in Calls :
          LET i == call[c].inst
              cmd == Head(queue[i])
          IN (/\ ReadReplied(c)
              /\ cmd.res = "ok" /\ cmd.val # None
              /\ cmd.val[1].lastUpdated.k = "num"
              /\ now' - cmd.val[1].lastUpdated.n < CACHE_STALE_MIN)
             => /\ call'[c].pc = "done"
                /\ call'[c].result = cmd.val
                /\ ~call'[c].started
                /\ queue'[i] = Tail(queue[i])
                /\ store' = store
                /\ isUpdating' = isUpdating
                /\ refresh' = refresh
                /\ \A d \in Calls \ {c} : call'[d] = call[d]]_vars

\* A read returned the fresh stored snapshot and no refresh is in flight on
\* its instance; the call started none.
C25_Witness ==
    \E c \in GetPricesCalls :
        /\ call[c].pc = "done" /\ call[c].how = "fresh"
        /\ call[c].result = store.data
        /\ now - call[c].result[1].lastUpdated.n < CACHE_STALE_MIN
        /\ ~call[c].started
        /\ ~InFlight(call[c].inst) /\ ~isUpdating[call[c].inst]
        /\ queue[call[c].inst] = <<>>

\* The Source Clients a getXxxPrice call has called are the first ones of the
\* symbol's order, in that order, each called once; all but the last one
\* returned null; and the call returned the value of the last one unless
\* that was null too.
TriedInOrder(sym) ==
    LET r == resolution[sym] IN
        /\ Len(r.tried) <= Len(SourceOrder[sym])
        /\ r.tried = SubSeq(SourceOrder[sym], 1, Len(r.tried))
        /\ \A j \in 1..(Len(r.got) - 1) : r.got[j] = Null
        /\ r.pc = "done" =>
            /\ Len(r.got) = Len(r.tried) /\ Len(r.got) >= 1
            /\ r.got[Len(r.got)] # Null => r.result = r.got[Len(r.got)]
            /\ r.got[Len(r.got)] = Null => Len(r.tried) = Len(SourceOrder[sym])

C29_ThrowKeepsSnapshot ==
    [][\A i \in Instances :
          LET w == refresh[i].waiter IN
              (/\ refresh[i].pc = "fetching" /\ refresh'[i].pc = "idle"
               /\ isRedisConnected[i] \/ (w # 0 /\ call'[w].how = "thrown"))
              => /\ store' = store
                 /\ queue'[i] = queue[i]
                 /\ ~isUpdating'[i]
                 /\ w # 0 => /\ call'[w].pc = "done"
                             /\ call'[w].how = "thrown"
                             /\ call'[w].result = refresh[i].prev]_vars

\* A getFreshPrices call whose refresh threw returned the snapshot that is
\* still the stored one, with its lastUpdated older than the clock.
C29_Witness ==
    \E c \in GetFreshCalls :
        /\ call[c].pc = "done" /\ call[c].how = "thrown"
        /\ call[c].result # None
        /\ call[c].result = store.data
        /\ call[c].result[1].lastUpdated.n < now
        /\ ~isUpdating[call[c].inst]

\* C30: a write to the store never replaces a snapshot by one with a smaller
\* lastUpdated.
C30_LastUpdatedNeverDecreases ==
    [][(store.data # None /\ store'.data # None)
       => store'.data[1].lastUpdated.n >= store.data[1].lastUpdated.n]_vars

\* The getPrices call c found no fresh snapshot and started the refresh that
\* is in flight, and the client is connected.
TriggeredRefresh(c) ==
    /\ call[c].kind = "getPrices" /\ call[c].pc = "done"
    /\ call[c].how \in {"stale", "miss"}
    /\ call[c].started
    /\ isRedisConnected[call[c].inst]
    /\ InFlight(call[c].inst)
    /\ refresh[call[c].inst].trigger = c

\* The refresh call c started has written its snapshot: a read now finds it,
\* with a lastUpdated newer than that of the snapshot c returned.
RefreshedSince(c) ==
    \E i \in Instances :
        /\ refresh[i].trigger = c /\ refresh[i].pc = "wait_db"
        /\ StoreGet(now) = refresh[i].newData
        /\ store.data[1].lastUpdated = Num(refresh[i].builtAt)
        /\ call[c].result # None
           => store.data[1].lastUpdated.n > call[c].result[1].lastUpdated.n

\* C26: with the store reachable and the batch request settling, a refresh
\* started by a read that found a stale snapshot or none leads to a stored
\* snapshot with a newer lastUpdated that a later read finds.
C26_TriggeredRefreshLeadsToNewer ==
    \A c \in Calls : TriggeredRefresh(c) ~> RefreshedSince(c)

\* The refresh started by a read that returned a stale snapshot has written
\* a newer one, which is fresh.
C26_Witness ==
    \E c \in GetPricesCalls :
        /\ call[c].how = "stale" /\ call[c].started
        /\ RefreshedSince(c)
        /\ IsFresh(store.data[1], now)

====
